---- MODULE Spec2Model ----
(***************************************************************************)
(* Model of package_control/providers/package_provider.py: one             *)
(* PackageProvider object, the transport and host clients it talks to,     *)
(* and its three public operations get_packages, get_renamed_packages and  *)
(* get_unavailable_packages.                                               *)
(*                                                                         *)
(* A Python dict is a TLA+ function whose DOMAIN is the set of keys that   *)
(* are present.  A Python exception that leaves a method is the "kind" of  *)
(* the value the operation produced.                                       *)
(***************************************************************************)
EXTENDS Integers, Sequences, FiniteSets, TLC

\* Longest "packages" list of a manifest served by the transport.
MaxPackages == 2
\* Number of get_packages calls made on the one provider.
MaxCalls == 2

-----------------------------------------------------------------------------
(* Python dict helpers *)

EmptyDict == <<>>

Has(d, k) == k \in DOMAIN d

\* `d.get(k)` used as a condition: the key is present and its value is not
\* the empty string (JSON null and "" are both written "").
Truthy(d, k) == Has(d, k) /\ d[k] # ""

\* `if some_dict:` - a dict is true when it has at least one key.
NonEmpty(d) == DOMAIN d # {}

Restrict(d, keys) == [k \in (DOMAIN d) \cap keys |-> d[k]]

\* d[k] = v
Put(d, k, v) == (k :> v) @@ d

-----------------------------------------------------------------------------
(* The URLs and tokens of the bounded universe *)

RootUrl == "https://example.com/a/repo.json"

IncRelUp   == "../b.json"
IncRelHere == "./c.json"
IncAbs     == "https://other.example.org/d.json"

GhRepo   == "https://github.com/u/r"
GhTags   == "https://github.com/u/r/tags"
BbRepo   == "https://bitbucket.org/u/r"
OtherUrl == "https://example.net/u/r"

LegacyZip == "https://nodeload.github.com/u/r/zipball/v1"
CanonZip  == "https://nodeload.github.com/u/r/zip/v1"
PlainZip  == "https://example.com/r-2.0.zip"

\* JSON null given as the schema_version
JsonNull == "<null>"

-----------------------------------------------------------------------------
(* Host clients (clients/github_client.py, clients/bitbucket_client.py):   *)
(* a details URL gives a dict, or an empty (false) value when the client   *)
(* does not recognise the URL.                                             *)

GitHubRepoInfo(url) ==
    IF url = GhRepo
    THEN [name |-> "r", description |-> "from github", author |-> "u",
          url |-> GhRepo]
    ELSE EmptyDict

BitBucketRepoInfo(url) ==
    IF url = BbRepo
    THEN [name |-> "r", description |-> "from bitbucket", author |-> "u",
          url |-> BbRepo]
    ELSE EmptyDict

GitHubDownloadInfo(url) ==
    IF url \in {GhRepo, GhTags}
    THEN [url |-> LegacyZip, version |-> "1.0", date |-> "2020-01-01"]
    ELSE EmptyDict

BitBucketDownloadInfo(url) ==
    IF url = BbRepo
    THEN [url |-> PlainZip, version |-> "2.0", date |-> "2019-01-01"]
    ELSE EmptyDict

-----------------------------------------------------------------------------
(* Release selection (providers/release_selector.py)                       *)

\* The platform the host application runs on is windows-x64.
PlatformMatches(p) == p \in {"*", "windows", "windows-x64"}

\* The host application is a 2xxx build.
HostVersionOk(c) == c \in {"*", "<3000"}

VersionRank(r) ==
    IF ~Has(r, "version") THEN 0
    ELSE IF r.version = "1.0" THEN 1 ELSE 2

DateRank(r) ==
    IF ~Has(r, "date") THEN 0
    ELSE IF r.date = "2019-01-01" THEN 1 ELSE 2

Eligible(r) ==
    /\ Has(r, "platforms")
    /\ \E p \in r.platforms : PlatformMatches(p)
    /\ (Has(r, "sublime_text") => HostVersionOk(r.sublime_text))

Better(a, b) ==
    \/ VersionRank(a) > VersionRank(b)
    \/ VersionRank(a) = VersionRank(b) /\ DateRank(a) > DateRank(b)

\* select_release(info): info with 'download' set to the best eligible
\* release of info['releases'], or a false value when none is eligible.
select_release(info) ==
    LET rs == info.releases
        ok == {i \in 1..Len(rs) : Eligible(rs[i])}
        best == CHOOSE i \in ok :
                  \A j \in ok : \/ Better(rs[i], rs[j])
                                \/ ~Better(rs[j], rs[i]) /\ i <= j
    IN IF ok = {} THEN [found |-> FALSE, info |-> EmptyDict]
       ELSE [found |-> TRUE, info |-> Put(info, "download", rs[best])]

\* select_platform(info): info with 'download' set from the first entry of
\* info['platforms'] that fits the platform, or a false value.
select_platform(info) ==
    LET ps == info.platforms
        ok == {i \in 1..Len(ps) : PlatformMatches(ps[i].platform)}
        first == CHOOSE i \in ok : \A j \in ok : i <= j
    IN IF ok = {} THEN [found |-> FALSE, info |-> EmptyDict]
       ELSE [found |-> TRUE,
             info |-> Put(info, "download", [url |-> ps[first].url])]

-----------------------------------------------------------------------------
(* Manifests the transport can serve *)

RWin1 == [details |-> "", platforms |-> {"windows"}, version |-> "1.0",
          url |-> LegacyZip, date |-> "2020-01-01"]
ROsx2 == [details |-> "", platforms |-> {"osx"}, version |-> "2.0",
          url |-> PlainZip, date |-> "2019-01-01"]
RSt3  == [details |-> "", platforms |-> {"*"}, sublime_text |-> ">=3000",
          version |-> "2.0", url |-> PlainZip]

\* Package entries in the schema 1.x shape (inline platforms).
V1Star   == [name |-> "A", description |-> "a package", author |-> "Y",
             last_modified |-> "2020-01-01", homepage |-> "https://a.example",
             platforms |-> << [platform |-> "*", url |-> LegacyZip] >>]
V1Osx    == [name |-> "A",
             platforms |-> << [platform |-> "osx", url |-> PlainZip] >>]
V1Win    == [name |-> "B",
             platforms |-> << [platform |-> "osx", url |-> PlainZip],
                              [platform |-> "windows", url |-> PlainZip] >>]
V1NoName == [platforms |-> << [platform |-> "osx", url |-> PlainZip] >>]

Packages1x == {V1Star, V1Osx, V1Win, V1NoName}

\* Package entries in the schema 2.0 shape (details and/or releases).
V2Two      == [name |-> "A", author |-> "Y",
               previous_names |-> [str |-> "Old"],
               releases |-> <<RWin1, ROsx2>>]
V2TwoRev   == [name |-> "A",
               previous_names |-> [list |-> <<"Old", "Older">>],
               releases |-> <<ROsx2, RWin1>>]
V2Gh       == [name |-> "B", author |-> "Y", details |-> GhRepo]
V2Bb       == [name |-> "B", details |-> BbRepo]
V2Other    == [name |-> "B", details |-> OtherUrl,
               previous_names |-> [str |-> "Older"]]
V2RelGh    == [name |-> "B",
               releases |-> << [details |-> GhTags, platforms |-> {"*"}] >>]
V2RelOther == [name |-> "B",
               releases |-> << [details |-> OtherUrl], RWin1 >>]
V2Bare     == [name |-> "B"]
V2NoKey    == [name |-> "B", previous_names |-> [str |-> "Old"],
               releases |-> << [platforms |-> {"*"}, url |-> PlainZip] >>]
V2St3      == [name |-> "B", releases |-> <<RSt3>>]

Packages20 == {V2Two, V2TwoRev, V2Gh, V2Bb, V2Other, V2RelGh, V2RelOther,
               V2Bare, V2NoKey, V2St3}

SeqsUpTo(S, n) == UNION {[1..k -> S] : k \in 0..n}

\* schema_version values: a supported number, an unsupported number, a
\* string that is no number, JSON null.
SupportedOld   == {"1.0", "1.1", "1.2"}
Unsupported    == {"3.0", "abc", JsonNull}

\* Optional top-level keys next to schema_version and packages.
Extras ==
    { EmptyDict,
      [renamed_packages |-> [Old |-> "A"]],
      [includes |-> <<IncRelUp>>],
      [includes |-> <<IncAbs, IncRelHere, IncRelUp>>,
       renamed_packages |-> [Old |-> "A"]] }

Manifests ==
    LET p1 == SeqsUpTo(Packages1x, MaxPackages)
        p2 == SeqsUpTo(Packages20, MaxPackages)
        core ==
            {[schema_version |-> v, packages |-> ps] :
                 v \in SupportedOld \cup Unsupported, ps \in p1}
            \cup {[schema_version |-> "2.0", packages |-> ps] : ps \in p2}
            \cup {[packages |-> ps] : ps \in p1}
            \cup {[schema_version |-> v] :
                     v \in SupportedOld \cup Unsupported \cup {"2.0"}}
            \cup {EmptyDict}
    IN {x @@ c : x \in Extras, c \in core}

\* What the transport answers for the root URL: the manifest, a download
\* failure, or bytes that are not JSON.
RootAnswers ==
    {[kind |-> "ok", json |-> m] : m \in Manifests}
    \cup {[kind |-> "download_error", json |-> EmptyDict],
          [kind |-> "parse_error", json |-> EmptyDict]}

\* What the transport answers for the other URLs.
IncludeAnswer(url) ==
    IF url = "https://example.com/b.json"
    THEN [kind |-> "ok", json |-> [schema_version |-> "1.2",
                                   packages |-> <<V1Win>>]]
    ELSE IF url = "https://example.com/a/c.json"
    THEN [kind |-> "ok", json |-> [schema_version |-> "1.2",
                                   packages |-> <<V1Star>>]]
    ELSE [kind |-> "download_error", json |-> EmptyDict]

-----------------------------------------------------------------------------
VARIABLES
    transport,             \* the answer of the transport for the root URL
    repo_info,             \* self.repo_info: None, False or the manifest
    schema_version,        \* self.schema_version, in tenths
    unavailable_packages,  \* self.unavailable_packages
    fetched,               \* the URLs handed to download_url, in order
    calls,                 \* number of get_packages calls made
    ret,                   \* what the last operation returned or raised
    trace,                 \* the outputs observed after each get_packages
    handed                 \* the release lists handed to select_release by
                           \* the last get_packages call

vars == <<transport, repo_info, schema_version, unavailable_packages,
          fetched, calls, ret, trace, handed>>

RepoNone  == [tag |-> "None", val |-> EmptyDict]
RepoFalse == [tag |-> "False", val |-> EmptyDict]
RepoDict(m) == [tag |-> "dict", val |-> m]

\* A returned value or a raised exception.
Value(op, kind, d, l) == [op |-> op, kind |-> kind, dict |-> d, list |-> l]
Raised(op, exc) == Value(op, exc, EmptyDict, <<>>)

-----------------------------------------------------------------------------
(* PackageProvider.fetch_url and fetch_repo *)

Answer(url) == IF url = RootUrl THEN transport ELSE IncludeAnswer(url)

\* fetch_url: False when the download fails or the bytes are not JSON,
\* else the decoded JSON.
fetch_url(url) ==
    IF Answer(url).kind = "ok" THEN RepoDict(Answer(url).json) ELSE RepoFalse

\* The guard written as a truth test: a failed fetch (False) is retried.
AlreadyFetchedTruthTest(ri) == ri.tag = "dict"

\* `if self.repo_info != None: return` - False is not None either.
AlreadyFetched(ri) == ri.tag # "None"

\* fetch_repo: the new self.repo_info, the downloads made, and the
\* exception that leaves the method, if any.  urlparse() returns a named
\* tuple, so url_pieces['scheme'] raises TypeError as soon as the manifest
\* has an 'includes' key: self.repo_info is already assigned by then, the
\* key is not deleted and no include is downloaded.
fetch_repo ==
    IF AlreadyFetched(repo_info)
    THEN [repo_info |-> repo_info, fetched |-> fetched, exc |-> ""]
    ELSE LET got  == fetch_url(RootUrl)
             down == Append(fetched, RootUrl)
         IN IF got.tag = "False"
            THEN [repo_info |-> got, fetched |-> down, exc |-> ""]
            ELSE IF ~Has(got.val, "includes")
            THEN [repo_info |-> got, fetched |-> down, exc |-> ""]
            ELSE [repo_info |-> got, fetched |-> down, exc |-> "TypeError"]

-----------------------------------------------------------------------------
(* PackageProvider.get_packages *)

\* float(self.repo_info.get('schema_version')), in tenths
FloatOf(v) ==
    IF v = "1.0" THEN [exc |-> "", val |-> 10]
    ELSE IF v = "1.1" THEN [exc |-> "", val |-> 11]
    ELSE IF v = "1.2" THEN [exc |-> "", val |-> 12]
    ELSE IF v = "2.0" THEN [exc |-> "", val |-> 20]
    ELSE IF v = "3.0" THEN [exc |-> "", val |-> 30]
    ELSE IF v = JsonNull THEN [exc |-> "TypeError", val |-> 0]
    ELSE [exc |-> "ValueError", val |-> 0]

SupportedSchema(sv) == sv \in {10, 11, 12, 20}

\* The fields copied from the package entry before any lookup.
ExplicitInfo(package) ==
    LET copied == {f \in {"name", "description", "author", "last_modified"} :
                      Truthy(package, f)}
        info   == [f \in copied |-> package[f]]
    IN IF Truthy(package, "homepage")
       THEN Put(info, "url", package.homepage)
       ELSE info

ReleaseFields == {"platforms", "sublime_text", "version", "url", "date"}

\* The entry the loop body reads in its i-th round: releases[0].
ReleaseEntry(releases, i) == releases[1]

\* The loop over the releases.  download_info is one dict created before
\* the loop; every round writes the same fields of releases[0] into it, so
\* each appended reference shows the same content.
RECURSIVE ReleaseLoop(_, _, _, _, _)
ReleaseLoop(releases, i, download_info, out, info) ==
    IF i > Len(releases) THEN [exc |-> "", releases |-> out]
    ELSE
      LET entry  == ReleaseEntry(releases, i)
          copied == Restrict(entry, ReleaseFields) @@ download_info
      IN IF ~Has(entry, "details")
         THEN [exc |-> "KeyError", releases |-> out]
         ELSE IF entry.details # ""
         THEN IF NonEmpty(GitHubDownloadInfo(entry.details))
                 \/ NonEmpty(BitBucketDownloadInfo(entry.details))
              \* dict() called with two positional arguments
              THEN [exc |-> "TypeError", releases |-> out]
              \* the message is formatted with info['name']
              ELSE IF ~Has(info, "name")
              THEN [exc |-> "KeyError", releases |-> out]
              ELSE ReleaseLoop(releases, i + 1, copied, out, info)
         ELSE ReleaseLoop(releases, i + 1, copied, Append(out, copied), info)

\* re.sub of the legacy zipball URL
Rewrite(url) == IF url = LegacyZip THEN CanonZip ELSE url

Raise(acc, exc) == [acc EXCEPT !.exc = exc]

\* The append left out.
MarkUnavailableDropped(unavailable, name) == unavailable

\* self.unavailable_packages.append(package['name'])
MarkUnavailable(unavailable, name) == Append(unavailable, name)

\* From `if not info:` to `output[info['name']] = info`.
Finish(package, sel, acc) ==
    IF ~sel.found
    THEN IF ~Has(package, "name") THEN Raise(acc, "KeyError")
         ELSE [acc EXCEPT
                 !.unavailable = MarkUnavailable(@, package.name)]
    ELSE
      LET info == sel.info IN
      IF ~Has(info, "download")
      THEN IF ~Has(info, "name") THEN Raise(acc, "KeyError") ELSE acc
      ELSE
        LET info2 == IF Has(info, "url") THEN info
                     ELSE Put(info, "url", RootUrl)
        IN IF ~Has(info2.download, "url") THEN Raise(acc, "KeyError")
           ELSE
             LET info3 == Put(info2, "download",
                              Put(info2.download, "url",
                                  Rewrite(info2.download.url)))
             IN IF ~Has(info3, "name") THEN Raise(acc, "KeyError")
                ELSE [acc EXCEPT !.output = Put(@, info3.name, info3)]

\* One round of `for package in self.repo_info['packages']`.
ProcessPackage(package, sv, acc) ==
    LET info == ExplicitInfo(package) IN
    IF sv >= 20
    THEN
      LET details == IF Has(package, "details") THEN package.details ELSE ""
      IN IF details # ""
         THEN \* dict() called with two positional arguments
              IF NonEmpty(GitHubRepoInfo(details)) THEN Raise(acc, "TypeError")
              ELSE IF NonEmpty(BitBucketRepoInfo(details))
              THEN Raise(acc, "TypeError")
              ELSE acc
         \* details is false here, so `not releases and details` is false
         \* and releases stays what the entry holds
         ELSE IF ~Has(package, "releases")
         THEN Raise(acc, "TypeError")   \* for ... in None
         ELSE
           LET loop == ReleaseLoop(package.releases, 1, EmptyDict, <<>>, info)
           IN IF loop.exc # "" THEN Raise(acc, loop.exc)
              ELSE Finish(package,
                          select_release(Put(info, "releases", loop.releases)),
                          [acc EXCEPT !.handed =
                              Append(@, [package |-> package,
                                         releases |-> loop.releases])])
    \* schema 1.x entries carry their platforms inline
    ELSE Finish(package,
                select_platform(Put(info, "platforms", package.platforms)),
                acc)

RECURSIVE PackageLoop(_, _, _, _)
PackageLoop(packages, i, sv, acc) ==
    IF i > Len(packages) \/ acc.exc # "" THEN acc
    ELSE PackageLoop(packages, i + 1, sv, ProcessPackage(packages[i], sv, acc))

\* get_packages as a whole: the new fields of the object and the value
\* returned (a dict, False) or the exception raised.
get_packages ==
    LET op   == "get_packages"
        fr   == fetch_repo
        keep == [repo_info |-> fr.repo_info, fetched |-> fr.fetched,
                 schema_version |-> schema_version,
                 unavailable |-> unavailable_packages, handed |-> <<>>,
                 ret |-> Value(op, "False", EmptyDict, <<>>)]
        m    == fr.repo_info.val
    IN IF fr.exc # "" THEN [keep EXCEPT !.ret = Raised(op, fr.exc)]
       ELSE IF fr.repo_info.tag = "False" THEN keep
       ELSE IF ~Has(m, "schema_version") THEN keep
       ELSE IF FloatOf(m.schema_version).exc = "ValueError" THEN keep
       ELSE IF FloatOf(m.schema_version).exc # ""
       THEN [keep EXCEPT !.ret = Raised(op, FloatOf(m.schema_version).exc)]
       ELSE
         LET sv   == FloatOf(m.schema_version).val
             kept == [keep EXCEPT !.schema_version = sv]
         IN IF ~SupportedSchema(sv) THEN kept
            ELSE IF ~Has(m, "packages") THEN kept
            ELSE
              LET acc == PackageLoop(m.packages, 1, sv,
                             [output |-> EmptyDict,
                              unavailable |-> unavailable_packages,
                              handed |-> <<>>, exc |-> ""])
              IN [kept EXCEPT
                    !.unavailable = acc.unavailable,
                    !.handed = acc.handed,
                    !.ret = IF acc.exc # "" THEN Raised(op, acc.exc)
                            ELSE Value(op, "dict", acc.output, <<>>)]

-----------------------------------------------------------------------------
(* PackageProvider.get_renamed_packages and get_unavailable_packages *)

PreviousNames(package) ==
    IF Has(package.previous_names, "list")
    THEN package.previous_names.list
    ELSE << package.previous_names.str >>

RECURSIVE NamesLoop(_, _, _, _)
NamesLoop(names, j, package, acc) ==
    IF j > Len(names) \/ acc.exc # "" THEN acc
    ELSE IF ~Has(package, "name")
    THEN NamesLoop(names, j + 1, package, Raise(acc, "KeyError"))
    ELSE NamesLoop(names, j + 1, package,
                   [acc EXCEPT !.output = Put(@, names[j], package.name)])

RECURSIVE RenamedLoop(_, _, _)
RenamedLoop(packages, i, acc) ==
    IF i > Len(packages) \/ acc.exc # "" THEN acc
    ELSE IF ~Has(packages[i], "previous_names")
    THEN RenamedLoop(packages, i + 1, acc)
    ELSE RenamedLoop(packages, i + 1,
                     NamesLoop(PreviousNames(packages[i]), 1, packages[i], acc))

get_renamed_packages(ri, sv) ==
    LET op == "get_renamed_packages" IN
    IF sv < 20
    THEN \* None and False have no .get
         IF ri.tag # "dict" THEN Raised(op, "AttributeError")
         ELSE IF Has(ri.val, "renamed_packages")
         THEN Value(op, "dict", ri.val.renamed_packages, <<>>)
         ELSE Value(op, "dict", EmptyDict, <<>>)
    ELSE IF ~Has(ri.val, "packages") THEN Raised(op, "KeyError")
    ELSE LET acc == RenamedLoop(ri.val.packages, 1,
                                [output |-> EmptyDict, exc |-> ""])
         IN IF acc.exc # "" THEN Raised(op, acc.exc)
            ELSE Value(op, "dict", acc.output, <<>>)

get_unavailable_packages(unavailable) ==
    Value("get_unavailable_packages", "list", EmptyDict, unavailable)

-----------------------------------------------------------------------------
(* The state machine: one provider, its caller invoking the operations *)

Init ==
    /\ transport \in RootAnswers
    /\ repo_info = RepoNone
    /\ schema_version = 0
    /\ unavailable_packages = <<>>
    /\ fetched = <<>>
    /\ calls = 0
    /\ ret = Value("init", "none", EmptyDict, <<>>)
    /\ trace = <<>>
    /\ handed = <<>>

GetPackages ==
    /\ calls < MaxCalls
    /\ LET r == get_packages
       IN /\ repo_info' = r.repo_info
          /\ fetched' = r.fetched
          /\ schema_version' = r.schema_version
          /\ unavailable_packages' = r.unavailable
          /\ handed' = r.handed
          /\ ret' = r.ret
          /\ trace' = Append(trace,
                 [ret |-> r.ret,
                  unavailable |-> get_unavailable_packages(r.unavailable),
                  renamed |-> get_renamed_packages(r.repo_info,
                                                   r.schema_version)])
    /\ calls' = calls + 1
    /\ UNCHANGED transport

GetRenamedPackages ==
    /\ ret.op # "get_renamed_packages"
    /\ ret' = get_renamed_packages(repo_info, schema_version)
    /\ UNCHANGED <<transport, repo_info, schema_version, unavailable_packages,
                   fetched, calls, trace, handed>>

GetUnavailablePackages ==
    /\ ret.op # "get_unavailable_packages"
    /\ ret' = get_unavailable_packages(unavailable_packages)
    /\ UNCHANGED <<transport, repo_info, schema_version, unavailable_packages,
                   fetched, calls, trace, handed>>

Next ==
    \/ GetPackages
    \/ GetRenamedPackages
    \/ GetUnavailablePackages

Spec == Init /\ [][Next]_vars

-----------------------------------------------------------------------------
(* Properties *)

RootOk   == transport.kind = "ok"
Manifest == transport.json
Range(q) == {q[i] : i \in 1..Len(q)}
ReturnedMap == ret.op = "get_packages" /\ ret.kind = "dict"

\* C1: two get_packages calls on the same provider that both return a map
\* give the same map, the same unavailable list and the same renamed map.
C1_SecondCallSameOutputs ==
    (Len(trace) >= 2 /\ trace[1].ret.kind = "dict") => trace[2] = trace[1]

\* The merge the manifest entry and the provider answer should give.
Overlay(base, override) ==
    [k \in DOMAIN base \cup DOMAIN override |->
        IF k \in DOMAIN override THEN override[k] ELSE base[k]]

ProviderRepoInfo(url) ==
    IF NonEmpty(GitHubRepoInfo(url)) THEN GitHubRepoInfo(url)
    ELSE BitBucketRepoInfo(url)

\* C2: when the first package of a schema 2.0 manifest has a details URL a
\* provider recognises, get_packages merges the two sources: it does not
\* fail on the merge, and a resolved entry holds for every key the explicit
\* value if the manifest gives one and the provider's value otherwise.
C2_MergeExplicitOverProvider ==
    ( /\ ret.op = "get_packages"
      /\ RootOk
      /\ ~Has(Manifest, "includes")
      /\ Has(Manifest, "schema_version") /\ Manifest.schema_version = "2.0"
      /\ Has(Manifest, "packages") /\ Len(Manifest.packages) >= 1
      /\ Truthy(Manifest.packages[1], "details")
      /\ NonEmpty(ProviderRepoInfo(Manifest.packages[1].details)) )
    => LET p      == Manifest.packages[1]
           merged == Overlay(ProviderRepoInfo(p.details), ExplicitInfo(p))
       IN /\ ret.kind # "TypeError"
          /\ (ret.kind = "dict" /\ merged.name \in DOMAIN ret.dict)
                => \A k \in DOMAIN merged \ {"url"} :
                       /\ k \in DOMAIN ret.dict[merged.name]
                       /\ ret.dict[merged.name][k] = merged[k]

\* The selection run for a package entry found no compatible release.
NoCompatibleRelease(package, sv) ==
    IF sv >= 20
    THEN /\ ~Truthy(package, "details")
         /\ Has(package, "releases")
         /\ LET loop == ReleaseLoop(package.releases, 1, EmptyDict, <<>>,
                                    ExplicitInfo(package))
            IN /\ loop.exc = ""
               /\ ~select_release([releases |-> loop.releases]).found
    ELSE ~select_platform([platforms |-> package.platforms]).found

Resolved(package, sv) ==
    IF sv >= 20
    THEN /\ ~Truthy(package, "details")
         /\ Has(package, "releases")
         /\ LET loop == ReleaseLoop(package.releases, 1, EmptyDict, <<>>,
                                    ExplicitInfo(package))
            IN /\ loop.exc = ""
               /\ select_release([releases |-> loop.releases]).found
    ELSE select_platform([platforms |-> package.platforms]).found

\* C3 as stated: after get_packages returns a map, the name of every
\* package entry for which no compatible release was found is in the
\* unavailable list and is not a key of the map.
C3_UnavailableNeverInMap ==
    ReturnedMap =>
        \A i \in 1..Len(Manifest.packages) :
            LET p == Manifest.packages[i] IN
            NoCompatibleRelease(p, schema_version) =>
                /\ p.name \in Range(unavailable_packages)
                /\ p.name \notin DOMAIN ret.dict

\* C3 amended: after get_packages returns a map, the name of every package
\* entry for which no compatible release was found is in the unavailable
\* list, and it is a key of the map only when another entry of the list
\* carries the same name and was resolved.
C3_UnavailableListed ==
    ReturnedMap =>
        \A i \in 1..Len(Manifest.packages) :
            LET p == Manifest.packages[i] IN
            NoCompatibleRelease(p, schema_version) =>
                /\ p.name \in Range(unavailable_packages)
                /\ p.name \in DOMAIN ret.dict =>
                      \E j \in 1..Len(Manifest.packages) :
                          /\ j # i
                          /\ Has(Manifest.packages[j], "name")
                          /\ Manifest.packages[j].name = p.name
                          /\ Resolved(Manifest.packages[j], schema_version)

C3_Witness ==
    /\ ReturnedMap
    /\ \E i \in 1..Len(Manifest.packages) :
          /\ NoCompatibleRelease(Manifest.packages[i], schema_version)
          /\ Manifest.packages[i].name \in DOMAIN ret.dict

\* C4: when the root manifest cannot be downloaded or parsed, get_packages
\* returns False and the accessors called afterwards give zero entries: no
\* data and no exception.
C4_UnreadableRootEmptyOutputs ==
    (~RootOk /\ calls >= 1) =>
        /\ ret.op = "get_packages" => ret.kind = "False"
        /\ ret.op = "get_unavailable_packages" =>
               ret.kind = "list" /\ ret.list = <<>>
        /\ ret.op = "get_renamed_packages" =>
               ret.kind = "dict" /\ ret.dict = EmptyDict

InvalidManifest ==
    \/ ~Has(Manifest, "schema_version")
    \/ Manifest.schema_version \notin {"1.0", "1.1", "1.2", "2.0"}
    \/ ~Has(Manifest, "packages")

\* C5: for a root manifest, with or without includes, whose schema_version
\* is missing, no number or unsupported, or whose packages key is missing,
\* get_packages returns False and the unavailable list stays as it was.
C5_InvalidManifestReturnsFalse ==
    (RootOk /\ InvalidManifest /\ ret.op = "get_packages") =>
        /\ ret.kind = "False"
        /\ unavailable_packages = <<>>

\* The URL an include reference stands for: relative references resolved
\* against the directory of RootUrl, absolute ones verbatim.
ResolvedInclude(include) ==
    IF include = IncRelUp THEN "https://example.com/b.json"
    ELSE IF include = IncRelHere THEN "https://example.com/a/c.json"
    ELSE include

\* C6: once get_packages has loaded a root manifest with includes, every
\* include was fetched from its resolved URL.
C6_IncludesFetchedFromResolvedUrl ==
    (calls >= 1 /\ RootOk /\ Has(Manifest, "includes")) =>
        \A i \in 1..Len(Manifest.includes) :
            ResolvedInclude(Manifest.includes[i]) \in Range(fetched)

RECURSIVE IncludedPackages(_, _)
IncludedPackages(includes, i) ==
    IF i > Len(includes) THEN <<>>
    ELSE LET a == IncludeAnswer(ResolvedInclude(includes[i]))
         IN (IF a.kind = "ok" /\ Has(a.json, "packages")
             THEN a.json.packages ELSE <<>>)
            \o IncludedPackages(includes, i + 1)

\* C7: once get_packages has loaded a root manifest with includes, the
\* package list it works on is the root's packages followed by the packages
\* of every include that could be fetched, in include order.
C7_IncludedPackagesAppended ==
    (calls >= 1 /\ RootOk /\ Has(Manifest, "includes")
                /\ Has(Manifest, "packages")) =>
        /\ repo_info.tag = "dict"
        /\ ~Has(repo_info.val, "includes")
        /\ repo_info.val.packages =
               Manifest.packages \o IncludedPackages(Manifest.includes, 1)

AllPackages ==
    (IF Has(Manifest, "packages") THEN Manifest.packages ELSE <<>>)
    \o (IF Has(Manifest, "includes")
        THEN IncludedPackages(Manifest.includes, 1) ELSE <<>>)

Lists(package, name) ==
    /\ Has(package, "previous_names")
    /\ name \in Range(PreviousNames(package))

\* C8: after get_packages has been called, get_renamed_packages gives for a
\* schema 2.0 manifest exactly the names some package lists in its
\* previous_names, each sent to the name of a package listing it, and for
\* an older schema the renamed_packages object of the manifest.
C8_RenamedPackages ==
    ( /\ ret.op = "get_renamed_packages" /\ calls >= 1 /\ RootOk
      /\ Has(Manifest, "packages") /\ Has(Manifest, "schema_version") ) =>
        /\ Manifest.schema_version = "2.0" =>
              /\ ret.kind = "dict"
              /\ DOMAIN ret.dict =
                    {n \in {"Old", "Older"} :
                        \E i \in 1..Len(AllPackages) : Lists(AllPackages[i], n)}
              /\ \A n \in DOMAIN ret.dict :
                    \E i \in 1..Len(AllPackages) :
                        /\ Lists(AllPackages[i], n)
                        /\ AllPackages[i].name = ret.dict[n]
        /\ Manifest.schema_version \in SupportedOld =>
              /\ ret.kind = "dict"
              /\ ret.dict = IF Has(Manifest, "renamed_packages")
                            THEN Manifest.renamed_packages ELSE EmptyDict

\* C9: the release candidates handed to selection are built one per release
\* entry, the i-th from the fields of the i-th entry (here for entries that
\* name no details URL, so nothing is added to their own fields).
C9_CandidatePerRelease ==
    \A k \in 1..Len(handed) :
        LET rs == handed[k].package.releases IN
        (\A i \in 1..Len(rs) : Has(rs[i], "details") /\ rs[i].details = "")
        => /\ Len(handed[k].releases) = Len(rs)
           /\ \A i \in 1..Len(rs) :
                 handed[k].releases[i] = Restrict(rs[i], ReleaseFields)

NoDuplicates(q) == \A i, j \in 1..Len(q) : q[i] = q[j] => i = j

====
